---- MODULE Spec2Model ----
(***************************************************************************)
(* forge-agent-shim (tools/forge-agent-shim/src/main.rs): a launcher that  *)
(* resolves a script path from FORGE_AGENT_SCRIPT or from its own          *)
(* invocation name, runs `node <script> <args...>`, waits for it and       *)
(* mirrors its exit code.                                                  *)
(*                                                                         *)
(* Strings are sequences of one-character strings, so that lower-casing,   *)
(* substring search and trimming are computed character by character.      *)
(* Arguments and the environment value are valid Unicode strings, as in    *)
(* the data model of the specification.                                    *)
(***************************************************************************)
EXTENDS Integers, Sequences, FiniteSets, TLC

VARIABLES
  argv,          \* the process's argument vector (argument zero first)
  envval,        \* FORGE_AGENT_SCRIPT in the environment: NotPresent or a string
  pc,            \* position of main
  exe_name,      \* main: exe_name
  rest,          \* main: rest
  script,        \* main: script, an Option<PathBuf>
  child,         \* the Command handed to the OS, once status() was called
  launches,      \* number of calls of Command::status
  stderr,        \* lines written by eprintln!
  exit_code      \* the ExitCode main returned, or NoExit while it runs

vars == <<argv, envval, pc, exe_name, rest, script, child, launches, stderr, exit_code>>

----------------------------------------------------------------------------
(* Bounds of the explored inputs *)

MaxNameParts == 2
MaxEnvLen == 2
MaxArgs == 2

(* i32 range of ExitStatus::code *)
MaxI32 == 2147483647
MinI32 == (-2147483647) - 1

----------------------------------------------------------------------------
(* Option and Result values *)

None == [some |-> FALSE]
Some(x) == [some |-> TRUE, val |-> x]

NotPresent == [set |-> FALSE]
Present(v) == [set |-> TRUE, v |-> v]

NoExit == [exited |-> FALSE]
Exited(n) == [exited |-> TRUE, code |-> n]

NoChild == [state |-> "none"]

----------------------------------------------------------------------------
(* The two fixed script paths *)

GeminiScript ==
  << "C", ":", "\\", "U", "s", "e", "r", "s", "\\", "h", "i", "t", "h", "e",
     "\\", "A", "p", "p", "D", "a", "t", "a", "\\", "R", "o", "a", "m", "i",
     "n", "g", "\\", "n", "p", "m", "\\", "n", "o", "d", "e", "_", "m", "o",
     "d", "u", "l", "e", "s", "\\", "@", "g", "o", "o", "g", "l", "e", "\\",
     "g", "e", "m", "i", "n", "i", "-", "c", "l", "i", "\\", "d", "i", "s",
     "t", "\\", "i", "n", "d", "e", "x", ".", "j", "s" >>

CodexScript ==
  << "C", ":", "\\", "U", "s", "e", "r", "s", "\\", "h", "i", "t", "h", "e",
     "\\", "A", "p", "p", "D", "a", "t", "a", "\\", "R", "o", "a", "m", "i",
     "n", "g", "\\", "n", "p", "m", "\\", "n", "o", "d", "e", "_", "m", "o",
     "d", "u", "l", "e", "s", "\\", "@", "o", "p", "e", "n", "a", "i", "\\",
     "c", "o", "d", "e", "x", "\\", "b", "i", "n", "\\", "c", "o", "d", "e",
     "x", ".", "j", "s" >>

gemini == <<"g", "e", "m", "i", "n", "i">>
codex == <<"c", "o", "d", "e", "x">>
node == <<"n", "o", "d", "e">>

----------------------------------------------------------------------------
(* String functions of the standard library, as the code uses them *)

UpperCase ==
  << "A", "B", "C", "D", "E", "F", "G", "H", "I", "J", "K", "L", "M",
     "N", "O", "P", "Q", "R", "S", "T", "U", "V", "W", "X", "Y", "Z" >>

LowerCase ==
  << "a", "b", "c", "d", "e", "f", "g", "h", "i", "j", "k", "l", "m",
     "n", "o", "p", "q", "r", "s", "t", "u", "v", "w", "x", "y", "z" >>

char_to_ascii_lowercase(c) ==
  IF \E i \in 1..Len(UpperCase) : UpperCase[i] = c
    THEN LowerCase[CHOOSE i \in 1..Len(UpperCase) : UpperCase[i] = c]
    ELSE c

to_ascii_lowercase(s) == [i \in 1..Len(s) |-> char_to_ascii_lowercase(s[i])]

(* mutation: the pattern is looked for at the start of the name only *)
starts_with(s, pat) ==
  Len(s) >= Len(pat) /\ SubSeq(s, 1, Len(pat)) = pat

contains(s, pat) ==
  \E i \in 1..(Len(s) - Len(pat) + 1) : SubSeq(s, i, i + Len(pat) - 1) = pat

is_whitespace(c) == c \in {" ", "\t", "\n", "\r", "\f"}

RECURSIVE trim_start(_)
trim_start(s) ==
  IF Len(s) > 0 /\ is_whitespace(Head(s)) THEN trim_start(Tail(s)) ELSE s

RECURSIVE trim_end(_)
trim_end(s) ==
  IF Len(s) > 0 /\ is_whitespace(s[Len(s)])
    THEN trim_end(SubSeq(s, 1, Len(s) - 1))
    ELSE s

trim(s) == trim_end(trim_start(s))

is_empty(s) == Len(s) = 0

----------------------------------------------------------------------------
(* mutation: the name is matched without lower-casing it *)
default_node_script_case_sensitive(name) ==
  IF contains(name, gemini) THEN Some(GeminiScript)
  ELSE IF contains(name, codex) THEN Some(CodexScript)
  ELSE None

(* fn default_node_script_from_exe(exe_name: &str) -> Option<PathBuf> *)

default_node_script_from_exe(name) ==
  LET lower == to_ascii_lowercase(name) IN
  IF contains(lower, gemini) THEN Some(GeminiScript)
  ELSE IF contains(lower, codex) THEN Some(CodexScript)
  ELSE None

(* mutation: the override is trimmed before it is used *)
resolve_script_trimmed(var, name) ==
  IF var.set /\ ~is_empty(trim(var.v))
    THEN Some(trim(var.v))
    ELSE default_node_script_from_exe(name)

(* mutation: the override is tested for emptiness without trimming *)
resolve_script_untrimmed_test(var, name) ==
  IF var.set /\ ~is_empty(var.v)
    THEN Some(var.v)
    ELSE default_node_script_from_exe(name)

(* main, lines 25-37: the value of `script`, None where main returns 2 *)
resolve_script(var, name) ==
  IF var.set /\ ~is_empty(trim(var.v))
    THEN Some(var.v)
    ELSE default_node_script_from_exe(name)

(* Command::new("node").arg(script).args(rest) *)
command(path, args) == [program |-> node, args |-> <<path>> \o args]

(* mutation: a saturating conversion in place of the truncating cast *)
as_u8_saturating(c) == IF c < 0 THEN 0 ELSE IF c > 255 THEN 255 ELSE c

(* `as u8` on an i32: the low eight bits of the two's complement value *)
Low8(n) == n - ((n \div 256) * 256)
as_u8(c) == IF c >= 0 THEN Low8(c) ELSE 255 - Low8(-(c + 1))

unwrap_or(opt, d) == IF opt.some THEN opt.val ELSE d

(* mutation: only success or failure of the child is reported *)
exit_code_success_only(code) == IF code.some /\ code.val = 0 THEN 0 ELSE 1

(* mutation: a child without an exit code counts as code 0 *)
exit_code_default_zero(code) == as_u8(unwrap_or(code, 0))

(* main, line 41: ExitCode::from(s.code().unwrap_or(1) as u8) *)
exit_code_of_status(code) == as_u8(unwrap_or(code, 1))

----------------------------------------------------------------------------
(* Inputs *)

RECURSIVE SeqsUpTo(_, _)
SeqsUpTo(S, n) ==
  IF n = 0 THEN {<<>>}
  ELSE LET shorter == SeqsUpTo(S, n - 1) IN
       shorter \cup {Append(s, x) : s \in shorter, x \in S}

RECURSIVE Concat(_)
Concat(ss) == IF ss = <<>> THEN <<>> ELSE Head(ss) \o Concat(Tail(ss))

NameParts ==
  { <<"G", "e", "M", "i", "N", "i">>,
    <<"g", "e", "m">>,
    <<"i", "n", "i">>,
    <<"C", "o", "D", "e", "X">>,
    <<"-">> }

Names == {Concat(ps) : ps \in SeqsUpTo(NameParts, MaxNameParts)}

EnvChars == {" ", "x"}
EnvValues == {NotPresent} \cup {Present(v) : v \in SeqsUpTo(EnvChars, MaxEnvLen)}

ArgValues == { <<"a">>, <<"b", " ", "c">> }
ArgLists == SeqsUpTo(ArgValues, MaxArgs)

Argvs == {<<>>} \cup {<<n>> \o as : n \in Names, as \in ArgLists}

ChildCodes == {0, 1, 2, 255, 256, -1, MaxI32, MinI32}
ChildResults == {None} \cup {Some(c) : c \in ChildCodes}

----------------------------------------------------------------------------
(* The program *)

Init ==
  /\ argv \in Argvs
  /\ envval \in EnvValues
  /\ pc = "start"
  /\ exe_name = <<>>
  /\ rest = <<>>
  /\ script = None
  /\ child = NoChild
  /\ launches = 0
  /\ stderr = <<>>
  /\ exit_code = NoExit

(* mutation: the invocation name is not taken off the forwarded arguments *)
ReadArgs_keeping_name ==
  /\ pc = "start"
  /\ exe_name' = IF Len(argv) > 0 THEN Head(argv) ELSE <<>>
  /\ rest' = argv
  /\ pc' = "resolve"
  /\ UNCHANGED <<argv, envval, script, child, launches, stderr, exit_code>>

(* lines 21-23: args.next().unwrap_or_default(), args.collect() *)
ReadArgs ==
  /\ pc = "start"
  /\ exe_name' = IF Len(argv) > 0 THEN Head(argv) ELSE <<>>
  /\ rest' = IF Len(argv) > 0 THEN Tail(argv) ELSE <<>>
  /\ pc' = "resolve"
  /\ UNCHANGED <<argv, envval, script, child, launches, stderr, exit_code>>

(* lines 25-28: a script was determined *)
Resolved ==
  /\ pc = "resolve"
  /\ resolve_script(envval, exe_name).some
  /\ script' = resolve_script(envval, exe_name)
  /\ pc' = "launch"
  /\ UNCHANGED <<argv, envval, exe_name, rest, child, launches, stderr, exit_code>>

(* lines 29-35: no script, diagnostic, return 2 *)
ResolutionFailed ==
  /\ pc = "resolve"
  /\ ~resolve_script(envval, exe_name).some
  /\ stderr' = Append(stderr, [msg |-> "script cannot be inferred", name |-> exe_name])
  /\ exit_code' = Exited(2)
  /\ pc' = "done"
  /\ UNCHANGED <<argv, envval, exe_name, rest, script, child, launches>>

(* line 39: status() spawns the child and blocks in wait *)
Spawn ==
  /\ pc = "launch"
  /\ launches' = launches + 1
  /\ child' = [state |-> "running", cmd |-> command(script.val, rest)]
  /\ pc' = "wait"
  /\ UNCHANGED <<argv, envval, exe_name, rest, script, stderr, exit_code>>

(* lines 39, 42-45: status() returns Err *)
SpawnFailed ==
  /\ pc = "launch"
  /\ launches' = launches + 1
  /\ child' = [state |-> "failed", cmd |-> command(script.val, rest)]
  /\ stderr' = Append(stderr, [msg |-> "failed to launch target process"])
  /\ exit_code' = Exited(1)
  /\ pc' = "done"
  /\ UNCHANGED <<argv, envval, exe_name, rest, script>>

(* the child terminates, with a code or without one; the program does not act *)
ChildExits ==
  /\ child.state = "running"
  /\ \E r \in ChildResults :
       child' = [state |-> "exited", cmd |-> child.cmd, code |-> r]
  /\ UNCHANGED <<argv, envval, pc, exe_name, rest, script, launches, stderr, exit_code>>

(* mutation: the status is taken without waiting for the child to terminate *)
WaitReturns_without_waiting ==
  /\ pc = "wait"
  /\ child.state \in {"running", "exited"}
  /\ exit_code' = Exited(IF child.state = "exited" THEN exit_code_of_status(child.code) ELSE 1)
  /\ pc' = "done"
  /\ UNCHANGED <<argv, envval, exe_name, rest, script, child, launches, stderr>>

(* lines 39-41: status() returns Ok(s) once the child has terminated *)
WaitReturns ==
  /\ pc = "wait"
  /\ child.state = "exited"
  /\ exit_code' = Exited(exit_code_of_status(child.code))
  /\ pc' = "done"
  /\ UNCHANGED <<argv, envval, exe_name, rest, script, child, launches, stderr>>

Next ==
  \/ ReadArgs
  \/ Resolved
  \/ ResolutionFailed
  \/ Spawn
  \/ SpawnFailed
  \/ ChildExits
  \/ WaitReturns

Spec == Init /\ [][Next]_vars

(* main runs to completion by itself; only the child's termination is not *)
(* in its hands *)
FairSpec ==
  /\ Spec
  /\ WF_vars(ReadArgs)
  /\ WF_vars(Resolved)
  /\ WF_vars(ResolutionFailed)
  /\ WF_vars(Spawn \/ SpawnFailed)
  /\ WF_vars(WaitReturns)

----------------------------------------------------------------------------
(* Vocabulary of the properties, stated on the inputs without the code's    *)
(* own string functions                                                     *)

InvocationName == IF Len(argv) > 0 THEN argv[1] ELSE <<>>
ForwardedArgs == IF Len(argv) > 0 THEN [i \in 1..(Len(argv) - 1) |-> argv[i + 1]] ELSE <<>>

SameLetter(c, l) ==
  \/ c = l
  \/ \E i \in 1..Len(LowerCase) : LowerCase[i] = l /\ UpperCase[i] = c

NameHas(word) ==
  \E i \in 0..Len(InvocationName) :
    /\ i + Len(word) <= Len(InvocationName)
    /\ \A k \in 1..Len(word) : SameLetter(InvocationName[i + k], word[k])

OverrideUnset == ~envval.set
OverrideBlank == envval.set /\ \A i \in 1..Len(envval.v) : envval.v[i] \in {" ", "\t", "\n", "\r", "\f"}
OverrideGiven == envval.set /\ \E i \in 1..Len(envval.v) : envval.v[i] \notin {" ", "\t", "\n", "\r", "\f"}

ResolutionOver == pc \in {"launch", "wait", "done"}
LaunchAttempted == child.state # "none"
ChildStarted == child.state \in {"running", "exited"}
ChildStartedAndEnded == child.state = "exited"
ChildEndedWith(r) == child.state = "exited" /\ child.code = r
Terminated == pc = "done"

UnresolvedDiagnostic == [msg |-> "script cannot be inferred", name |-> InvocationName]
LaunchDiagnostic == [msg |-> "failed to launch target process"]

----------------------------------------------------------------------------
(* C1: a FORGE_AGENT_SCRIPT value that is not blank is the script path,     *)
(* character for character and untrimmed, whatever the invocation name is;  *)
(* the name-based defaults are not used.                                    *)
C1_OverridePrecedence ==
  (OverrideGiven /\ ResolutionOver) =>
    /\ script = Some(envval.v)
    /\ LaunchAttempted => child.cmd.args[1] = envval.v

C1_Witness ==
  /\ OverrideGiven
  /\ envval.v[1] = " "
  /\ NameHas(gemini)
  /\ ChildStarted
  /\ child.cmd.args[1] = envval.v

(* C2, as stated: a name containing "codex" with the override unset         *)
(* resolves to the Codex path.                                              *)
C2_CodexAlways ==
  (NameHas(codex) /\ OverrideUnset /\ ResolutionOver) => script = Some(CodexScript)

(* C2, amended: a name containing "codex" and not containing "gemini" (both *)
(* case-insensitively) with the override unset resolves to the Codex path.  *)
C2_CodexWithoutGemini ==
  (NameHas(codex) /\ ~NameHas(gemini) /\ OverrideUnset /\ ResolutionOver) =>
    script = Some(CodexScript)

C2_Witness ==
  /\ NameHas(codex)
  /\ ~NameHas(gemini)
  /\ Len(InvocationName) > Len(codex)
  /\ OverrideUnset
  /\ script = Some(CodexScript)
  /\ ChildStarted

(* C3: a name containing "gemini" in any letter case at any position, with  *)
(* the override unset or blank, resolves to the Gemini path, and node is    *)
(* launched with that path.                                                 *)
C3_GeminiDefault ==
  (NameHas(gemini) /\ (OverrideUnset \/ OverrideBlank)) =>
    /\ ResolutionOver => script = Some(GeminiScript)
    /\ pc \in {"wait", "done"} =>
         /\ LaunchAttempted
         /\ child.cmd.program = node
         /\ child.cmd.args[1] = GeminiScript

C3_Witness ==
  /\ NameHas(gemini)
  /\ InvocationName[1] = "-"
  /\ OverrideBlank
  /\ Len(envval.v) > 0
  /\ ChildStarted
  /\ child.cmd.args[1] = GeminiScript

(* C4: a name containing neither "gemini" nor "codex", with the override    *)
(* unset or blank, ends in exit code 2 with one diagnostic on the error     *)
(* stream, and no launch is attempted in any state of the run.              *)
C4_ResolutionFailure ==
  (~NameHas(gemini) /\ ~NameHas(codex) /\ (OverrideUnset \/ OverrideBlank)) =>
    /\ ~LaunchAttempted
    /\ launches = 0
    /\ pc \notin {"launch", "wait"}
    /\ Terminated => (exit_code = Exited(2) /\ stderr = <<UnresolvedDiagnostic>>)

C4_Witness ==
  /\ ~NameHas(gemini)
  /\ ~NameHas(codex)
  /\ Len(InvocationName) > 0
  /\ OverrideBlank
  /\ Len(envval.v) > 0
  /\ Terminated
  /\ exit_code = Exited(2)

(* C5: a launched child is node, and its arguments are the resolved script  *)
(* path followed by the arguments after the invocation name: same length,   *)
(* same order, same content, the invocation name not among them.            *)
C5_ArgumentForwarding ==
  LaunchAttempted =>
    /\ child.cmd.program = node
    /\ Len(child.cmd.args) = 1 + Len(ForwardedArgs)
    /\ child.cmd.args[1] = script.val
    /\ \A i \in 1..Len(ForwardedArgs) : child.cmd.args[i + 1] = ForwardedArgs[i]

C5_Witness ==
  /\ ChildStarted
  /\ Len(ForwardedArgs) = 2
  /\ ForwardedArgs[1] = ForwardedArgs[2]
  /\ Len(ForwardedArgs[1]) > 1
  /\ child.cmd.args = <<script.val, ForwardedArgs[1], ForwardedArgs[2]>>

(* C6: a child that exits with a code N in 0..255 makes the program exit    *)
(* with N, whether the script came from the override or from the name.      *)
C6_ExitCodeMirroring ==
  (ChildStartedAndEnded /\ Terminated /\ child.code.some /\ child.code.val \in 0..255) =>
    exit_code = Exited(child.code.val)

C6_Witness ==
  /\ ChildEndedWith(Some(255))
  /\ Terminated
  /\ exit_code = Exited(255)
  /\ OverrideGiven

(* C7: once a script is resolved, a child that fails to start, or ends      *)
(* without an exit code, makes the program exit with 1 after that single    *)
(* launch; the diagnostic is written in the first case only.                *)
C7_ExitCodeOneFallback ==
  /\ child.state = "failed" =>
       /\ Terminated
       /\ exit_code = Exited(1)
       /\ stderr = <<LaunchDiagnostic>>
       /\ launches = 1
  /\ (ChildEndedWith(None) /\ Terminated) =>
       /\ exit_code = Exited(1)
       /\ stderr = <<>>
       /\ launches = 1

C7_Witness ==
  /\ ChildEndedWith(None)
  /\ Terminated
  /\ exit_code = Exited(1)
  /\ stderr = <<>>

(* C8: the program exits with 0 only if a child was launched and ended with *)
(* exit code 0.                                                             *)
C8_ZeroOnlyFromZero ==
  (Terminated /\ exit_code = Exited(0)) => ChildEndedWith(Some(0))

(* C9: for a child exit code c in the signed 32-bit range, the program      *)
(* exits with c modulo 256, a value in 0..255.                              *)
C9_ExitCodeTruncation ==
  (ChildStartedAndEnded /\ Terminated /\ child.code.some /\ child.code.val \in MinI32..MaxI32) =>
    /\ exit_code.code \in 0..255
    /\ exit_code.code = child.code.val % 256

C9_Witness ==
  /\ ChildEndedWith(Some(-1))
  /\ Terminated
  /\ exit_code = Exited(255)

(* C10: resolution precedes the launch, at most one child is launched, the  *)
(* program does not terminate while the child runs, and once the child has  *)
(* terminated the program terminates.                                       *)
C10_SynchronousWait ==
  /\ [][launches' # launches => (pc = "launch" /\ script.some /\ launches = 0)]_vars
  /\ [](launches <= 1)
  /\ [](child.state = "running" => (pc = "wait" /\ exit_code = NoExit))
  /\ [](Terminated => child.state # "running")
  /\ (child.state = "exited") ~> Terminated

C10_Witness ==
  /\ Terminated
  /\ child.state = "exited"
  /\ launches = 1
  /\ exit_code.exited

====
